---- MODULE Spec2Model ----
(***************************************************************************)
(* State-machine model of AppProvider in src/app/(tabs)/index.tsx (the     *)
(* second, complete variant of the provider, lines 310-453): the chapter   *)
(* fetcher (fetchSurahs, fetchAyahs), the chapter navigation               *)
(* (fetchNextSurah, fetchPreviousSurah), the playback sequencer            *)
(* (playAudio and its completion callback) and handleBackPress.            *)
(*                                                                         *)
(* Every async function is a task that is suspended at each await; one     *)
(* action is the synchronous run of the code between two awaits.  A        *)
(* function created by a render closes over the state values of that       *)
(* render: a task started by the user captures the current values of       *)
(* sound and selectedSurah, and a task started by a completion callback    *)
(* inherits the values captured by the playAudio call that registered the  *)
(* callback.  Calls into expo-av and fetch resolve or reject               *)
(* nondeterministically; stopAsync on a sound that is no longer loaded is  *)
(* the one call expo-av always rejects, which the model allows as one of   *)
(* the two outcomes.                                                       *)
(*                                                                         *)
(* Spec lets the handlers be called through the context value at any time, *)
(* SpecUi calls them as the screen does (its lists are rendered only while *)
(* nothing is loading), SpecNav is the chapter navigation of the screen    *)
(* over all chapters.  SpecChain is one auto-advance chain left to itself, *)
(* under weak fairness of createAsync resolving and of a playing handle    *)
(* finishing.  SpecV1 is the playAudio of the first provider of the file   *)
(* (lines 47-131), which awaits unloadAsync before its try block.          *)
(***************************************************************************)
EXTENDS Integers, Sequences, FiniteSets, Bags, TLC

(* ---------------------------- bounds ----------------------------------- *)
\* handles created in one run
MaxHandles == 3
\* playAudio / handleBackPress calls suspended at the same time
MaxTasks == 2
\* fetches in flight at the same time
MaxInflight == 2
\* user gestures (taps, Back, scroll to the end, pull to refresh) in one run
MaxOps == 3
\* verses of every chapter returned by the API
AyahsPerSurah == 2

(* ------------------------ program constants ---------------------------- *)
\* `selectedSurah.number === 114 ? 1 : ...`
LastSurah == 114
\* `json.code === 200`
SuccessCode == 200
\* any other response code
OtherCode == SuccessCode + 1

\* null
Null == 0

AllSurahs == 1..LastSurah
\* the chapters tapped in the chapter list under Spec
ShownSurahs == {1, LastSurah}

VARIABLES
  mounted,        \* the mount effect has run
  surahs,         \* useState<Surah[]>: the set of chapter numbers listed
  selectedSurah,  \* useState<SurahData | null>: chapter number or Null
  loading,        \* useState(false)
  selectedAyah,   \* useState<Ayah | null>: global verse number or Null
  sound,          \* useState<Audio.Sound | null>: handle id or Null
  handles,        \* the Audio.Sound objects created so far
  inflight,       \* bag of suspended fetchSurahs / fetchAyahs calls
  plays,          \* bag of suspended playAudio calls
  exits,          \* bag of suspended handleBackPress calls
  ops,            \* number of user gestures so far
  last            \* the handler step taken last (observation only)

vars == <<mounted, surahs, selectedSurah, loading, selectedAyah, sound,
          handles, inflight, plays, exits, ops, last>>

(* ----------------------------- data ------------------------------------ *)
\* SurahData.ayahs of chapter n: the global verse numbers, in order
Ayahs(n) == [i \in 1..AyahsPerSurah |-> (n - 1) * AyahsPerSurah + i]

AyahSet(n) == {Ayahs(n)[i] : i \in 1..AyahsPerSurah}

\* Array.prototype.findIndex, 0-based, -1 when absent
FindIndex(s, a) ==
  IF \E i \in 1..Len(s) : s[i] = a
  THEN (CHOOSE i \in 1..Len(s) : s[i] = a /\ \A j \in 1..(i - 1) : s[j] # a) - 1
  ELSE -1

\* s[k] of a 0-based array, Null when out of range (undefined)
At(s, k) == IF k >= 0 /\ k < Len(s) THEN s[k + 1] ELSE Null

\* NextAyah with the index wrapping to the first verse (faulty variant)
NextAyahWrap(n, a) ==
  LET i == FindIndex(Ayahs(n), a)
  IN  At(Ayahs(n), (i + 1) % AyahsPerSurah)

\* NextAyah without the + 1: the verse just played again (faulty variant)
NextAyahRepeat(n, a) ==
  At(Ayahs(n), FindIndex(Ayahs(n), a))

\* the callback's nextAyah: selectedSurah.ayahs[currentIndex + 1]
NextAyah(n, a) ==
  At(Ayahs(n), FindIndex(Ayahs(n), a) + 1)

\* NextSurahNumber without the wraparound (faulty variant)
NextSurahNumberNoWrap(n) == n + 1

\* fetchNextSurah's nextSurahNumber
NextSurahNumber(n) == IF n = LastSurah THEN 1 ELSE n + 1

\* HasPrevious without the lower clamp (faulty variant)
HasPreviousNoClamp(n) == n # Null

\* fetchPreviousSurah's condition
HasPrevious(n) == n # Null /\ n > 1

(* --------------------------- responses --------------------------------- *)
\* how a fetch ends: the json code of a parsed body, or a thrown error
Outcomes == {"ok", "code", "reject", "parse"}

\* json.code of a parsed response, Null when fetch or json() threw
Code(outcome) ==
  CASE outcome = "ok" -> SuccessCode
    [] outcome = "code" -> OtherCode
    [] OTHER -> Null

\* SurahAfter storing json.data whatever the code (faulty variant)
SurahAfterNoCheck(outcome, n, cur) ==
  CASE outcome \in {"reject", "parse"} -> cur
    [] outcome = "ok" -> n
    [] OTHER -> Null

\* selectedSurah after fetchAyahs(n) ended with outcome
SurahAfter(outcome, n, cur) ==
  IF Code(outcome) = SuccessCode THEN n ELSE cur

\* surahs after fetchSurahs ended with outcome
SurahsAfter(outcome, cur) ==
  IF Code(outcome) = SuccessCode THEN AllSurahs ELSE cur

Op(name, arg, res) == [op |-> name, arg |-> arg, res |-> res]

(* ----------------------------- Init ------------------------------------ *)
NoHandle == [st |-> "none", ayah |-> Null, cbSurah |-> Null, cbSound |-> Null]

Init ==
  /\ mounted = FALSE
  /\ surahs = {}
  /\ selectedSurah = Null
  /\ loading = FALSE
  /\ selectedAyah = Null
  /\ sound = Null
  /\ handles = [h \in 1..MaxHandles |-> NoHandle]
  /\ inflight = EmptyBag
  /\ plays = EmptyBag
  /\ exits = EmptyBag
  /\ ops = 0
  /\ last = Op("init", 0, "")

\* one more user gesture, within the bound
Gesture == ops < MaxOps /\ ops' = ops + 1

(* ---------------------------- fetcher ---------------------------------- *)
SurahsReq == [kind |-> "surahs", n |-> 0, by |-> "mount"]
AyahsReq(n, by) == [kind |-> "ayahs", n |-> n, by |-> by]

\* useEffect(() => { ... fetchSurahs(); }, []) up to the first await
Mount ==
  /\ ~mounted
  /\ mounted' = TRUE
  /\ loading' = TRUE
  /\ inflight' = inflight (+) SetToBag({SurahsReq})
  /\ last' = Op("mount", 0, "")
  /\ UNCHANGED <<surahs, selectedSurah, selectedAyah, sound, handles, plays,
                 exits, ops>>

\* fetchSurahs from the resumption after fetch / json() to its end
FetchSurahsDone(outcome) ==
  /\ BagIn(SurahsReq, inflight)
  /\ inflight' = inflight (-) SetToBag({SurahsReq})
  /\ surahs' = SurahsAfter(outcome, surahs)
  /\ loading' = FALSE
  /\ last' = Op("fetchSurahsDone", 0, outcome)
  /\ UNCHANGED <<mounted, selectedSurah, selectedAyah, sound, handles, plays,
                 exits, ops>>

\* (faulty variant) fetchAyahs without its setLoading(true)
FetchAyahsStartNoFlag(n, by) ==
  /\ BagCardinality(inflight) < MaxInflight
  /\ loading' = loading
  /\ inflight' = inflight (+) SetToBag({AyahsReq(n, by)})
  /\ UNCHANGED <<mounted, surahs, selectedSurah, selectedAyah, sound, handles,
                 plays, exits>>

\* fetchAyahs(surahNumber) up to the first await
FetchAyahsStart(n, by) ==
  /\ BagCardinality(inflight) < MaxInflight
  /\ loading' = TRUE
  /\ inflight' = inflight (+) SetToBag({AyahsReq(n, by)})
  /\ UNCHANGED <<mounted, surahs, selectedSurah, selectedAyah, sound, handles,
                 plays, exits>>

\* (faulty variant) a response is dropped while another fetch is in flight
FetchAyahsDoneDropOverlapped(r, outcome) ==
  /\ BagIn(r, inflight)
  /\ r.kind = "ayahs"
  /\ inflight' = inflight (-) SetToBag({r})
  /\ selectedSurah' = IF inflight' = EmptyBag
                      THEN SurahAfter(outcome, r.n, selectedSurah)
                      ELSE selectedSurah
  /\ loading' = FALSE
  /\ last' = Op("fetchAyahsDone", r.n, outcome)
  /\ UNCHANGED <<mounted, surahs, selectedAyah, sound, handles, plays, exits,
                 ops>>

\* (faulty variant) setLoading(false) at the end of the try, not in finally
FetchAyahsDoneNoFinally(r, outcome) ==
  /\ BagIn(r, inflight)
  /\ r.kind = "ayahs"
  /\ inflight' = inflight (-) SetToBag({r})
  /\ selectedSurah' = SurahAfter(outcome, r.n, selectedSurah)
  /\ loading' = IF Code(outcome) = Null THEN loading ELSE FALSE
  /\ last' = Op("fetchAyahsDone", r.n, outcome)
  /\ UNCHANGED <<mounted, surahs, selectedAyah, sound, handles, plays, exits,
                 ops>>

\* fetchAyahs from the resumption after fetch / json() to its end
FetchAyahsDone(r, outcome) ==
  /\ BagIn(r, inflight)
  /\ r.kind = "ayahs"
  /\ inflight' = inflight (-) SetToBag({r})
  /\ selectedSurah' = SurahAfter(outcome, r.n, selectedSurah)
  /\ loading' = FALSE
  /\ last' = Op("fetchAyahsDone", r.n, outcome)
  /\ UNCHANGED <<mounted, surahs, selectedAyah, sound, handles, plays, exits,
                 ops>>

\* a chapter of the list is tapped: onPress={() => fetchAyahs(item.number)}
SelectChapter(n) ==
  /\ Gesture
  /\ n \in surahs
  /\ FetchAyahsStart(n, "select")
  /\ last' = Op("selectChapter", n, "")

\* the list is scrolled to its end: onEndReached={fetchNextSurah}
FetchNextSurah ==
  /\ Gesture
  /\ selectedSurah # Null
  /\ IF selectedSurah # Null
     THEN FetchAyahsStart(NextSurahNumber(selectedSurah), "next")
     ELSE UNCHANGED <<mounted, surahs, selectedSurah, loading, selectedAyah,
                      sound, handles, inflight, plays, exits>>
  /\ last' = Op("fetchNextSurah", selectedSurah, "")

\* the list is pulled down: onRefresh={fetchPreviousSurah}
FetchPreviousSurah ==
  /\ Gesture
  /\ selectedSurah # Null
  /\ IF HasPrevious(selectedSurah)
     THEN FetchAyahsStart(selectedSurah - 1, "prev")
     ELSE UNCHANGED <<mounted, surahs, selectedSurah, loading, selectedAyah,
                      sound, handles, inflight, plays, exits>>
  /\ last' = Op("fetchPreviousSurah", selectedSurah, "")

(* --------------------------- expo-av ----------------------------------- *)
\* a handle is alive from its creation until it is unloaded
AliveStates == {"playing", "finished", "stopped"}
Alive(h) == handles[h].st \in AliveStates
AliveHandles == {h \in 1..MaxHandles : Alive(h)}
Created == Cardinality({h \in 1..MaxHandles : handles[h].st # "none"})

\* handles after sound.stopAsync() resolved
Stopped(hs, h) ==
  IF hs[h].st \in {"playing", "finished"}
  THEN [hs EXCEPT ![h].st = "stopped"] ELSE hs

\* handles after sound.unloadAsync() resolved
Unloaded(hs, h) ==
  IF hs[h].st \in AliveStates THEN [hs EXCEPT ![h].st = "unloaded"] ELSE hs

TaskCount == BagCardinality(plays) + BagCardinality(exits)

One(t) == SetToBag({t})

(* -------------------------- playAudio ---------------------------------- *)
PlayTask(a, cSound, cSurah, chained) ==
  [pc |-> IF cSound # Null THEN "stop" ELSE "create", ayah |-> a,
   cSound |-> cSound, cSurah |-> cSurah, chained |-> chained]

\* room for one more playAudio call within the bounds
PlayRoom ==
  /\ TaskCount < MaxTasks
  /\ Created + BagCardinality(plays) < MaxHandles

\* a verse of the list is tapped: onPress={() => playAudio(item)}, up to the
\* first await; the call captures this render's sound and selectedSurah
PlayAudio(a) ==
  /\ Gesture
  /\ selectedSurah # Null
  /\ a \in AyahSet(selectedSurah)
  /\ PlayRoom
  /\ plays' = plays (+) One(PlayTask(a, sound, selectedSurah, FALSE))
  /\ last' = Op("playAudio", a, "")
  /\ UNCHANGED <<mounted, surahs, selectedSurah, loading, selectedAyah, sound,
                 handles, inflight, exits>>

\* playAudio resumed after `await sound.stopAsync()`
PlayStopDone(t, ok) ==
  /\ BagIn(t, plays)
  /\ t.pc = "stop"
  /\ IF ok
     THEN /\ handles' = Stopped(handles, t.cSound)
          /\ plays' = (plays (-) One(t)) (+) One([t EXCEPT !.pc = "unload"])
     ELSE /\ handles' = handles
          /\ plays' = plays (-) One(t)
  /\ last' = Op("playAudio:stop", t.ayah, IF ok THEN "ok" ELSE "reject")
  /\ UNCHANGED <<mounted, surahs, selectedSurah, loading, selectedAyah, sound,
                 inflight, exits, ops>>

\* playAudio resumed after `await sound.unloadAsync()`; createAsync is called
PlayUnloadDone(t, ok) ==
  /\ BagIn(t, plays)
  /\ t.pc = "unload"
  /\ IF ok
     THEN /\ handles' = Unloaded(handles, t.cSound)
          /\ plays' = (plays (-) One(t)) (+) One([t EXCEPT !.pc = "create"])
     ELSE /\ handles' = handles
          /\ plays' = plays (-) One(t)
  /\ last' = Op("playAudio:unload", t.ayah, IF ok THEN "ok" ELSE "reject")
  /\ UNCHANGED <<mounted, surahs, selectedSurah, loading, selectedAyah, sound,
                 inflight, exits, ops>>

\* playAudio resumed after `await Audio.Sound.createAsync(..)` to its end
PlayCreateDone(t, ok) ==
  /\ BagIn(t, plays)
  /\ t.pc = "create"
  /\ plays' = plays (-) One(t)
  /\ IF ok
     THEN LET h == Created + 1
          IN  /\ handles' = [handles EXCEPT ![h] =
                     [st |-> "playing", ayah |-> t.ayah,
                      cbSurah |-> t.cSurah, cbSound |-> t.cSound]]
              /\ sound' = h
              /\ selectedAyah' = t.ayah
     ELSE UNCHANGED <<handles, sound, selectedAyah>>
  /\ last' = Op("playAudio:create", t.ayah, IF ok THEN "ok" ELSE "reject")
  /\ UNCHANGED <<mounted, surahs, selectedSurah, loading, inflight, exits,
                 ops>>

\* the verse the completion callback of handle h plays next, Null for none
CallbackNext(h) ==
  IF handles[h].cbSurah # Null
  THEN NextAyah(handles[h].cbSurah, handles[h].ayah)
  ELSE Null

\* handle h plays to its end: the status callback runs with didJustFinish
Finished(h) ==
  /\ handles[h].st = "playing"
  /\ handles' = [handles EXCEPT ![h].st = "finished"]
  /\ IF CallbackNext(h) # Null
     THEN /\ PlayRoom
          /\ plays' = plays (+) One(PlayTask(CallbackNext(h), handles[h].cbSound,
                                             handles[h].cbSurah, TRUE))
     ELSE plays' = plays
  /\ last' = Op("finished", h, "")
  /\ UNCHANGED <<mounted, surahs, selectedSurah, loading, selectedAyah, sound,
                 inflight, exits, ops>>

(* ------------------------ handleBackPress ------------------------------ *)
\* (faulty variant) handleBackPress aborting the fetches in flight
HandleBackPressCancels ==
  /\ Gesture
  /\ selectedSurah # Null
  /\ IF sound # Null
     THEN /\ TaskCount < MaxTasks
          /\ exits' = exits (+) One([pc |-> "stop", cSound |-> sound])
          /\ UNCHANGED <<selectedAyah, selectedSurah>>
     ELSE /\ selectedAyah' = Null
          /\ selectedSurah' = Null
          /\ exits' = exits
  /\ inflight' = EmptyBag
  /\ last' = Op("handleBackPress", sound, "")
  /\ UNCHANGED <<mounted, surahs, loading, sound, handles, plays>>

\* the Back button is pressed: handleBackPress up to its first await, or to
\* its end when no sound is set
HandleBackPress ==
  /\ Gesture
  /\ selectedSurah # Null
  /\ IF sound # Null
     THEN /\ TaskCount < MaxTasks
          /\ exits' = exits (+) One([pc |-> "stop", cSound |-> sound])
          /\ UNCHANGED <<selectedAyah, selectedSurah>>
     ELSE /\ selectedAyah' = Null
          /\ selectedSurah' = Null
          /\ exits' = exits
  /\ last' = Op("handleBackPress", sound, "")
  /\ UNCHANGED <<mounted, surahs, loading, sound, handles, inflight, plays>>

\* handleBackPress resumed after `await sound.stopAsync()`
BackStopDone(t, ok) ==
  /\ BagIn(t, exits)
  /\ t.pc = "stop"
  /\ IF ok
     THEN /\ handles' = Stopped(handles, t.cSound)
          /\ exits' = (exits (-) One(t)) (+) One([t EXCEPT !.pc = "unload"])
     ELSE /\ handles' = handles
          /\ exits' = exits (-) One(t)
  /\ last' = Op("handleBackPress:stop", t.cSound, IF ok THEN "ok" ELSE "reject")
  /\ UNCHANGED <<mounted, surahs, selectedSurah, loading, selectedAyah, sound,
                 inflight, plays, ops>>

\* handleBackPress resumed after `await sound.unloadAsync()` to its end
BackUnloadDone(t, ok) ==
  /\ BagIn(t, exits)
  /\ t.pc = "unload"
  /\ exits' = exits (-) One(t)
  /\ IF ok
     THEN /\ handles' = Unloaded(handles, t.cSound)
          /\ sound' = Null
          /\ selectedAyah' = Null
          /\ selectedSurah' = Null
     ELSE UNCHANGED <<handles, sound, selectedAyah, selectedSurah>>
  /\ last' = Op("handleBackPress:unload", t.cSound, IF ok THEN "ok" ELSE "reject")
  /\ UNCHANGED <<mounted, surahs, loading, inflight, plays, ops>>

(* ------------------- playAudio, first provider ------------------------- *)
\* The first AppProvider of the file (lines 47-131) awaits sound.unloadAsync()
\* before its try block, creates the handle without shouldPlay and starts it
\* with playAsync(); a handle created and not yet started is "stopped".

\* whether a rejection of the await at pc is inside the try of lines 90-110
V1Caught(pc) == pc # "unload"

V1Res(pc, ok) ==
  IF ok THEN "ok" ELSE IF V1Caught(pc) THEN "reject" ELSE "raised"

V1Task(a, cSound, cSurah, chained) ==
  [pc |-> IF cSound # Null THEN "unload" ELSE "create", ayah |-> a,
   cSound |-> cSound, cSurah |-> cSurah, chained |-> chained, h |-> Null]

\* a verse is tapped: playAudio(item) up to its first await
V1PlayAudio(a) ==
  /\ Gesture
  /\ selectedSurah # Null
  /\ a \in AyahSet(selectedSurah)
  /\ PlayRoom
  /\ plays' = plays (+) One(V1Task(a, sound, selectedSurah, FALSE))
  /\ last' = Op("playAudio", a, "")
  /\ UNCHANGED <<mounted, surahs, selectedSurah, loading, selectedAyah, sound,
                 handles, inflight, exits>>

\* playAudio resumed after `if (sound) await sound.unloadAsync()`
V1UnloadDone(t, ok) ==
  /\ BagIn(t, plays)
  /\ t.pc = "unload"
  /\ IF ok
     THEN /\ handles' = Unloaded(handles, t.cSound)
          /\ plays' = (plays (-) One(t)) (+) One([t EXCEPT !.pc = "create"])
     ELSE /\ handles' = handles
          /\ plays' = plays (-) One(t)
  /\ last' = Op("playAudio:unload", t.ayah, V1Res("unload", ok))
  /\ UNCHANGED <<mounted, surahs, selectedSurah, loading, selectedAyah, sound,
                 inflight, exits, ops>>

\* playAudio resumed after `await Audio.Sound.createAsync(..)`; setSound,
\* setSelectedAyah, and newSound.playAsync() is called
V1CreateDone(t, ok) ==
  /\ BagIn(t, plays)
  /\ t.pc = "create"
  /\ IF ok
     THEN LET h == Created + 1
          IN  /\ handles' = [handles EXCEPT ![h] =
                     [st |-> "stopped", ayah |-> t.ayah,
                      cbSurah |-> Null, cbSound |-> Null]]
              /\ sound' = h
              /\ selectedAyah' = t.ayah
              /\ plays' = (plays (-) One(t))
                            (+) One([t EXCEPT !.pc = "play", !.h = h])
     ELSE /\ plays' = plays (-) One(t)
          /\ UNCHANGED <<handles, sound, selectedAyah>>
  /\ last' = Op("playAudio:create", t.ayah, V1Res("create", ok))
  /\ UNCHANGED <<mounted, surahs, selectedSurah, loading, inflight, exits,
                 ops>>

\* playAudio resumed after `await newSound.playAsync()` to its end: the
\* status callback is registered
V1PlayDone(t, ok) ==
  /\ BagIn(t, plays)
  /\ t.pc = "play"
  /\ plays' = plays (-) One(t)
  /\ handles' =
       IF ok /\ handles[t.h].st = "stopped"
       THEN [handles EXCEPT ![t.h].st = "playing",
                            ![t.h].cbSurah = t.cSurah,
                            ![t.h].cbSound = t.cSound]
       ELSE handles
  /\ last' = Op("playAudio:play", t.ayah, V1Res("play", ok))
  /\ UNCHANGED <<mounted, surahs, selectedSurah, loading, selectedAyah, sound,
                 inflight, exits, ops>>

\* handle h plays to its end: the status callback runs with didJustFinish
V1Finished(h) ==
  /\ handles[h].st = "playing"
  /\ handles' = [handles EXCEPT ![h].st = "finished"]
  /\ IF CallbackNext(h) # Null
     THEN /\ PlayRoom
          /\ plays' = plays (+) One(V1Task(CallbackNext(h), handles[h].cbSound,
                                           handles[h].cbSurah, TRUE))
     ELSE plays' = plays
  /\ last' = Op("finished", h, "")
  /\ UNCHANGED <<mounted, surahs, selectedSurah, loading, selectedAyah, sound,
                 inflight, exits, ops>>

(* ------------------------- specifications ------------------------------ *)
\* the handlers called through the context value, at any time
Next ==
  \/ Mount
  \/ \E o \in Outcomes : FetchSurahsDone(o)
  \/ \E n \in ShownSurahs : SelectChapter(n)
  \/ \E r \in BagToSet(inflight), o \in Outcomes : FetchAyahsDone(r, o)
  \/ FetchNextSurah
  \/ FetchPreviousSurah
  \/ \E a \in 1..(LastSurah * AyahsPerSurah) : PlayAudio(a)
  \/ \E t \in BagToSet(plays), ok \in BOOLEAN : PlayStopDone(t, ok)
  \/ \E t \in BagToSet(plays), ok \in BOOLEAN : PlayUnloadDone(t, ok)
  \/ \E t \in BagToSet(plays), ok \in BOOLEAN : PlayCreateDone(t, ok)
  \/ \E h \in 1..MaxHandles : Finished(h)
  \/ HandleBackPress
  \/ \E t \in BagToSet(exits), ok \in BOOLEAN : BackStopDone(t, ok)
  \/ \E t \in BagToSet(exits), ok \in BOOLEAN : BackUnloadDone(t, ok)

Spec == Init /\ [][Next]_vars

(* Navigation as the screen allows it: the chapter list is rendered only   *)
(* while no chapter is selected and nothing is loading, and the verse list *)
(* with its scroll and refresh gestures only while nothing is loading.     *)
\* the chapter list of `showSurahs && !selectedSurah && !loading`
UiSelectChapter(n) == ~loading /\ selectedSurah = Null /\ SelectChapter(n)

\* the verse list of `selectedSurah && !loading`, scrolled to its end
UiFetchNextSurah == ~loading /\ FetchNextSurah

\* the verse list of `selectedSurah && !loading`, pulled down
UiFetchPreviousSurah == ~loading /\ FetchPreviousSurah

\* the verse list of `selectedSurah && !loading`, a verse tapped
UiPlayAudio(a) == ~loading /\ PlayAudio(a)

\* the Back button above the verse list of `selectedSurah && !loading`
UiHandleBackPress == ~loading /\ HandleBackPress

UiNext ==
  \/ Mount
  \/ \E o \in Outcomes : FetchSurahsDone(o)
  \/ \E n \in ShownSurahs : UiSelectChapter(n)
  \/ \E r \in BagToSet(inflight), o \in Outcomes : FetchAyahsDone(r, o)
  \/ UiFetchNextSurah
  \/ UiFetchPreviousSurah
  \/ \E a \in 1..(LastSurah * AyahsPerSurah) : UiPlayAudio(a)
  \/ \E t \in BagToSet(plays), ok \in BOOLEAN : PlayStopDone(t, ok)
  \/ \E t \in BagToSet(plays), ok \in BOOLEAN : PlayUnloadDone(t, ok)
  \/ \E t \in BagToSet(plays), ok \in BOOLEAN : PlayCreateDone(t, ok)
  \/ \E h \in 1..MaxHandles : Finished(h)
  \/ UiHandleBackPress
  \/ \E t \in BagToSet(exits), ok \in BOOLEAN : BackStopDone(t, ok)
  \/ \E t \in BagToSet(exits), ok \in BOOLEAN : BackUnloadDone(t, ok)

\* the handlers called as the screen calls them
SpecUi == Init /\ [][UiNext]_vars

\* chapter navigation on the screen, over all chapters
NavNext ==
  \/ Mount
  \/ \E o \in Outcomes : FetchSurahsDone(o)
  \/ \E n \in AllSurahs : UiSelectChapter(n)
  \/ \E r \in BagToSet(inflight), o \in Outcomes : FetchAyahsDone(r, o)
  \/ UiFetchNextSurah
  \/ UiFetchPreviousSurah

SpecNav == Init /\ [][NavNext]_vars

\* the first provider: mount, chapter selection from the list (shown while
\* no chapter is loaded, lines 160-170) and its playAudio
V1SelectChapter(n) == selectedSurah = Null /\ SelectChapter(n)

V1Next ==
  \/ Mount
  \/ \E o \in Outcomes : FetchSurahsDone(o)
  \/ \E n \in ShownSurahs : V1SelectChapter(n)
  \/ \E r \in BagToSet(inflight), o \in Outcomes : FetchAyahsDone(r, o)
  \/ \E a \in 1..(LastSurah * AyahsPerSurah) : V1PlayAudio(a)
  \/ \E t \in BagToSet(plays), ok \in BOOLEAN : V1UnloadDone(t, ok)
  \/ \E t \in BagToSet(plays), ok \in BOOLEAN : V1CreateDone(t, ok)
  \/ \E t \in BagToSet(plays), ok \in BOOLEAN : V1PlayDone(t, ok)
  \/ \E h \in 1..MaxHandles : V1Finished(h)

SpecV1 == Init /\ [][V1Next]_vars

\* one auto-advance chain left to itself: a verse is tapped once, with no
\* sound set, and from then on no gesture is made and no player call fails;
\* every createAsync resolves and every handle plays to its end
ChainPlayAudio(a) == Created = 0 /\ plays = EmptyBag /\ UiPlayAudio(a)

ChainCreateDone == \E t \in BagToSet(plays) : PlayCreateDone(t, TRUE)

ChainFinished == \E h \in 1..MaxHandles : Finished(h)

ChainNext ==
  \/ Mount
  \/ \E o \in Outcomes : FetchSurahsDone(o)
  \/ \E n \in AllSurahs : UiSelectChapter(n)
  \/ \E r \in BagToSet(inflight), o \in Outcomes : FetchAyahsDone(r, o)
  \/ \E a \in 1..(LastSurah * AyahsPerSurah) : ChainPlayAudio(a)
  \/ ChainCreateDone
  \/ ChainFinished

SpecChain ==
  /\ Init
  /\ [][ChainNext]_vars
  /\ WF_vars(ChainCreateDone)
  /\ WF_vars(ChainFinished)

(* ------------------------------ claims --------------------------------- *)
\* the last verse of chapter n
LastAyah(n) == Ayahs(n)[AyahsPerSurah]

\* the suspended playAudio call t runs to its end in this step
PlayEnds(t) == BagIn(t, plays) /\ plays' = plays (-) One(t)

\* the step is the rejection of a call the player was expected to serve:
\* every rejection but that of stopAsync on a sound that is not loaded
PlayerFailure(t) ==
  /\ last'.res = "reject"
  /\ ~(t.pc = "stop" /\ ~Alive(t.cSound))

\* a fetchAyahs call has just ended with a success response
ChapterSwapped == last.op = "fetchAyahsDone" /\ last.res = "ok"

\* a handleBackPress call has just run to its end, on any of its paths
ExitEnded ==
  \/ last.op = "handleBackPress" /\ last.arg = Null
  \/ last.op = "handleBackPress:stop" /\ last.res = "reject"
  \/ last.op = "handleBackPress:unload"

\* C1: in every reachable state at most one Playback Handle is alive
\* (created and not yet unloaded).
C1_AtMostOneHandleAlive == Cardinality(AliveHandles) <= 1

\* C2: when the playAudio call that the finished notification of verse v_i
\* started for the following verse of the loaded chapter ends, the Playback
\* Cursor is that following verse; stated for the runs in which the player
\* serves every call it is expected to serve.
C2_AutoAdvanceSetsCursor ==
  [][\A t \in BagToSet(plays) :
       (t.chained /\ t.cSurah = selectedSurah /\ PlayEnds(t) /\ ~PlayerFailure(t))
         => selectedAyah' = t.ayah]_vars

\* C3: when the handle playing the last verse of the loaded chapter signals
\* finished, the Playback Cursor, the Loaded Chapter and the handle slot stay
\* as they are, no playAudio call is started and no handle is created.
C3_LastVerseFinishedChangesNothing ==
  [][\A h \in 1..MaxHandles :
       (/\ handles[h].st = "playing"
        /\ handles'[h].st = "finished"
        /\ selectedSurah # Null
        /\ handles[h].ayah = LastAyah(selectedSurah))
         => /\ UNCHANGED <<selectedAyah, selectedSurah, sound, plays, inflight>>
            /\ Created' = Created]_vars

\* C3 witness: the handle playing the last verse of the loaded chapter has
\* just finished.
C3_Witness ==
  \E h \in 1..MaxHandles :
    /\ last = Op("finished", h, "")
    /\ handles[h].st = "finished"
    /\ selectedSurah # Null
    /\ handles[h].ayah = LastAyah(selectedSurah)
    /\ selectedAyah = handles[h].ayah
    /\ sound = h

\* a fetchAyahs call that ends with a success response loads the chapter it
\* asked for
LoadsRequested ==
  (last.op = "fetchAyahsDone" /\ last.res = "ok") => selectedSurah = last.arg

\* C4: fetchNextSurah with chapter n loaded requests chapter (n % 114) + 1,
\* and a request that succeeds loads the chapter it asked for.
C4_NextChapterWraps ==
  /\ [][last' = Op("fetchNextSurah", selectedSurah, "") /\ ops' = ops + 1
          => inflight' = inflight (+)
                One(AyahsReq((selectedSurah % LastSurah) + 1, "next"))]_vars
  /\ []LoadsRequested

\* C4 witness: with the last chapter loaded, fetchNextSurah has requested
\* chapter 1.
C4_Witness ==
  /\ selectedSurah = LastSurah
  /\ last = Op("fetchNextSurah", LastSurah, "")
  /\ BagIn(AyahsReq(1, "next"), inflight)

\* C5: fetchPreviousSurah with chapter n >= 2 loaded requests chapter n - 1,
\* and a request that succeeds loads the chapter it asked for; with chapter 1
\* loaded it issues no fetch and chapter 1 stays loaded.
C5_PreviousChapterClamps ==
  /\ [][last' = Op("fetchPreviousSurah", selectedSurah, "") /\ ops' = ops + 1
          => IF selectedSurah \in 2..LastSurah
             THEN inflight' = inflight (+)
                     One(AyahsReq(selectedSurah - 1, "prev"))
             ELSE /\ selectedSurah = 1
                  /\ UNCHANGED <<inflight, selectedSurah, loading>>]_vars
  /\ [](ChapterSwapped => selectedSurah = last.arg)

\* C5 witness: fetchPreviousSurah has run with chapter 1 loaded.
C5_Witness ==
  /\ last = Op("fetchPreviousSurah", 1, "")
  /\ selectedSurah = 1
  /\ inflight = EmptyBag

\* C6: once a chapter load has completed, no verse is the selected verse.
C6_ChapterLoadClearsCursor == ChapterSwapped => selectedAyah = Null

\* C7: once a chapter load has completed, no Playback Handle is alive.
C7_ChapterLoadReleasesHandle == ChapterSwapped => AliveHandles = {}

\* C8: when playAudio acquires its new handle, every handle that was alive
\* before has been stopped and unloaded: the new handle is the only one alive.
C8_ReleasedBeforeAcquire ==
  (last.op = "playAudio:create" /\ last.res = "ok") => AliveHandles = {sound}

\* C9: when handleBackPress has run to its end, on any path, no handle is
\* alive, the handle slot is empty and the Loaded Chapter and the Playback
\* Cursor are cleared.
C9_ExitEndsIdle ==
  ExitEnded =>
    /\ AliveHandles = {}
    /\ sound = Null
    /\ selectedSurah = Null
    /\ selectedAyah = Null

\* C10: a fetchSurahs or fetchAyahs call that fails (fetch rejects, the body
\* does not parse, or the response code is not the success code) runs to its
\* end leaving the chapter list, the Loaded Chapter, the Playback Cursor, the
\* handle slot and the handles as they were, and starts no other call.
C10_FailedFetchChangesNothing ==
  [][(/\ last'.op \in {"fetchSurahsDone", "fetchAyahsDone"}
      /\ last'.res \in {"code", "reject", "parse"}
      /\ inflight' # inflight)
       => /\ UNCHANGED <<surahs, selectedSurah, selectedAyah, sound, handles,
                         plays, exits>>
          /\ BagCardinality(inflight') = BagCardinality(inflight) - 1]_vars

\* C10 witness: a chapter fetch has just failed while a chapter is loaded, a
\* verse is selected and its handle is alive.
C10_Witness ==
  /\ last.op = "fetchAyahsDone"
  /\ last.res \in {"code", "reject", "parse"}
  /\ selectedSurah # Null
  /\ selectedAyah # Null
  /\ sound # Null
  /\ Alive(sound)

\* C11 as stated: in every reachable state with at least one fetch in flight,
\* loading is true, also while two fetches overlap.
C11_LoadingWhileInFlight == inflight # EmptyBag => loading

\* a fetch starts / a fetch completes in this step
FetchStarts == BagCardinality(inflight') > BagCardinality(inflight)
FetchCompletes == BagCardinality(inflight') < BagCardinality(inflight)

\* C11 amended: loading is true after every start of a fetch and, while a
\* fetch is in flight, it turns false only in a step that completes a fetch,
\* not necessarily the last one in flight (last writer wins).
C11_LoadingUntilACompletion ==
  [][/\ FetchStarts => loading'
     /\ (inflight # EmptyBag /\ loading /\ ~loading') => FetchCompletes]_vars

\* the first of two overlapping fetches has completed and cleared the flag
C11_Witness ==
  /\ last.op = "fetchAyahsDone"
  /\ inflight # EmptyBag
  /\ ~loading

\* C12: in every reachable state with no chapter loaded (Idle), no playback
\* handle is alive.
C12_IdleHasNoHandle == selectedSurah = Null => AliveHandles = {}

\* a playAudio call of either provider ends in this step by a failed await
PlayFails(t) == PlayEnds(t) /\ last'.res \in {"reject", "raised"}

\* C13: a rejection of stop, unload or handle creation inside playAudio is
\* caught, so the call ends without raising to its caller, and a failed
\* creation leaves the cursor, the stored handle and the handles unchanged.
C13_PlayFailureSwallowed ==
  [][\A t \in BagToSet(plays) :
       PlayFails(t) =>
         /\ last'.res # "raised"
         /\ t.pc = "create" => UNCHANGED <<selectedAyah, sound, handles>>]_vars

\* the ayahs request r resolves with a successful response in this step
AyahsResolve(r) ==
  /\ BagIn(r, inflight)
  /\ r.kind = "ayahs"
  /\ inflight' = inflight (-) One(r)
  /\ last' = Op("fetchAyahsDone", r.n, "ok")

\* C14: every successful fetchAyahs response sets the loaded chapter to its
\* own chapter, whatever else is in flight and whenever it was issued, and a
\* chapter is loaded by no other step; so after two overlapping calls have
\* both resolved the loaded chapter is that of the response resolved last.
C14_LastResolvedWins ==
  [][/\ \A r \in BagToSet(inflight) : AyahsResolve(r) => selectedSurah' = r.n
     /\ (selectedSurah' # selectedSurah /\ selectedSurah' # Null) =>
          \E r \in BagToSet(inflight) : AyahsResolve(r) /\ selectedSurah' = r.n
    ]_vars

\* one of two overlapping fetchAyahs calls has resolved and is loaded, the
\* call for another chapter is still in flight
C14_Witness ==
  /\ ChapterSwapped
  /\ selectedSurah = last.arg
  /\ \E r \in BagToSet(inflight) : r.kind = "ayahs" /\ r.n # selectedSurah

\* a step of handleBackPress
ExitStep ==
  last'.op \in {"handleBackPress", "handleBackPress:stop",
                "handleBackPress:unload"}

\* C15: handleBackPress cancels no fetch in flight, and a fetchAyahs(n)
\* response that succeeds while no chapter is loaded makes chapter n the
\* loaded chapter, with no user gesture in that step.
C15_FetchSurvivesExit ==
  [][/\ ExitStep => inflight' = inflight
     /\ \A r \in BagToSet(inflight) :
          (selectedSurah = Null /\ AyahsResolve(r)) =>
            (selectedSurah' = r.n /\ ops' = ops)]_vars

\* handleBackPress has ended in Idle while a call issued from the chapter
\* screen (next / previous chapter) is still in flight
C15_Witness ==
  /\ ExitEnded
  /\ selectedSurah = Null
  /\ \E r \in BagToSet(inflight) : r.kind = "ayahs" /\ r.by \in {"next", "prev"}

\* C16: in every reachable state a non-empty cursor is a verse of the
\* currently loaded chapter.
C16_CursorInLoadedChapter ==
  selectedAyah # Null =>
    (selectedSurah # Null /\ selectedAyah \in AyahSet(selectedSurah))

\* the second half of C16: a finished notification starts playAudio only for
\* a verse of the currently loaded chapter
FinishedPlaysLoadedChapter ==
  [][\A h \in 1..MaxHandles :
       (handles[h].st = "playing" /\ handles'[h].st = "finished"
        /\ plays' # plays) =>
         (selectedSurah # Null /\ CallbackNext(h) \in AyahSet(selectedSurah))
    ]_vars

\* a playAudio call has been made
ChainStarted == Created > 0 \/ plays # EmptyBag

\* the chain started by the handle 1 of verse v_i has played v_i .. v_k in
\* order, by k - i + 1 calls in all, and rests on v_k
ChainDone ==
  /\ plays = EmptyBag
  /\ \A h \in 1..MaxHandles : handles[h].st # "playing"
  /\ Created >= 1
  /\ selectedSurah # Null
  /\ LET i == FindIndex(Ayahs(selectedSurah), handles[1].ayah) + 1
     IN  /\ i >= 1
         /\ Created = (AyahsPerSurah - i) + 1
         /\ \A j \in 1..Created :
              handles[j].ayah = Ayahs(selectedSurah)[i + j - 1]
  /\ selectedAyah = LastAyah(selectedSurah)
  /\ sound = Created

C18_LoadingNotStuck == inflight = EmptyBag => ~loading

\* a fetchAyahs call has ended by a thrown error and no fetch is in flight
C18_Witness ==
  /\ last.op = "fetchAyahsDone"
  /\ last.res \in {"reject", "parse"}
  /\ inflight = EmptyBag
====
